---- MODULE Spec2Model ----
(***************************************************************************)
(* A model of the wrapped-line index of the text area                      *)
(* (src/src/textual/document/_wrapped_document.py) and of the line breaker *)
(* (src/src/textual/_wrap.py).                                             *)
(*                                                                         *)
(* Text is a sequence of one-character strings.  "W" stands for a wide     *)
(* (two cell) character such as a CJK glyph, "\t" is the tab, " " the      *)
(* space; every other character occupies one cell.  All list positions of  *)
(* the Python code are zero-based; a TLA+ sequence s holds position i of   *)
(* the Python list at s[i + 1].                                            *)
(***************************************************************************)
EXTENDS Integers, Sequences, FiniteSets, TLC

(***************************************************************************)
(* Bounds of the model.                                                    *)
(***************************************************************************)
MaxLines == 3
MaxNewLines == 2
MaxWidth == 3
QueryMaxLines == 2
MaxTextLen == 3

Min(a, b) == IF a <= b THEN a ELSE b
Max(a, b) == IF a >= b THEN a ELSE b

(***************************************************************************)
(* Python list primitives.                                                 *)
(***************************************************************************)
\* The bound of a slice s[lo:hi]: negative bounds count from the end, and
\* every bound is clipped into 0..len(s).
PySliceBound(i, n) == IF i < 0 THEN Max(0, i + n) ELSE Min(i, n)

\* s[lo:hi]
PySlice(s, lo, hi) ==
    LET l == PySliceBound(lo, Len(s))
        h == PySliceBound(hi, Len(s))
    IN  IF l >= h THEN << >> ELSE SubSeq(s, l + 1, h)

\* s[lo:hi] = new  (lo <= hi, both within the list)
PySliceAssign(s, lo, hi, new) ==
    LET l == PySliceBound(lo, Len(s))
        h == Max(l, PySliceBound(hi, Len(s)))
    IN  SubSeq(s, 1, l) \o new \o SubSeq(s, h + 1, Len(s))

\* s[i] with Python's negative indexing; the caller guards the bounds.
PyAt(s, i) == IF i < 0 THEN s[Len(s) + i + 1] ELSE s[i + 1]

PyInRange(s, i) == -Len(s) <= i /\ i < Len(s)

RECURSIVE SumLen(_)
SumLen(ss) == IF ss = << >> THEN 0 ELSE Len(Head(ss)) + SumLen(Tail(ss))

RECURSIVE Concat(_)
Concat(ss) == IF ss = << >> THEN << >> ELSE Head(ss) \o Concat(Tail(ss))

\* What a call gives back: the value it returns, or the name of the
\* exception it raises.
Returned(v) == [err |-> "none", val |-> v]
Raised(e) == [err |-> e, val |-> << >>]

(***************************************************************************)
(* Cell-width measurement and tab expansion.                               *)
(***************************************************************************)
WideChars == {"W"}
TabChar == "\t"
SpaceChars == {" ", TabChar}

\* Display width of one character: 2 for a wide character, 0 for a control
\* character (the tab), 1 otherwise.
get_character_cell_size(c) ==
    IF c \in WideChars THEN 2 ELSE IF c = TabChar THEN 0 ELSE 1

RECURSIVE cell_len(_)
cell_len(text) ==
    IF text = << >> THEN 0
    ELSE get_character_cell_size(Head(text)) + cell_len(Tail(text))

\* get_tab_widths: the text split at its tabs.  Each part is the text before
\* a tab (the tab removed) with the width the tab expands to, the distance to
\* the next tab stop; a last part without a tab has width 0.
RECURSIVE get_tab_widths_from(_, _, _, _)
get_tab_widths_from(line, tab_size, cell_position, parts) ==
    IF line = << >> THEN parts
    ELSE IF \E i \in 1..Len(line) : line[i] = TabChar
    THEN LET i == CHOOSE k \in 1..Len(line) :
                      line[k] = TabChar /\ \A j \in 1..(k - 1) : line[j] # TabChar
             part == SubSeq(line, 1, i - 1)
             position == cell_position + cell_len(part)
             expansion_width == tab_size - (position % tab_size)
         IN  get_tab_widths_from(SubSeq(line, i + 1, Len(line)), tab_size,
                                 position + expansion_width,
                                 Append(parts, [part |-> part, width |-> expansion_width]))
    ELSE Append(parts, [part |-> line, width |-> 0])

get_tab_widths(line, tab_size) == get_tab_widths_from(line, tab_size, 0, << >>)

Spaces(n) == [i \in 1..n |-> " "]

RECURSIVE expand_parts(_)
expand_parts(parts) ==
    IF parts = << >> THEN << >>
    ELSE Head(parts).part \o Spaces(Head(parts).width) \o expand_parts(Tail(parts))

\* expand_tabs_inline: every tab replaced by the spaces it expands to.
expand_tabs_inline(line, tab_size) == expand_parts(get_tab_widths(line, tab_size))

\* cell_width_to_column_index: walk the characters (and expanded tabs) of the
\* line, and return the index of the first one whose right edge lies beyond
\* cell_width; len(line) when there is none.
RECURSIVE cwtci_part(_, _, _, _)
cwtci_part(part, cell_width, column_index, total_cell_offset) ==
    IF part = << >>
    THEN [found |-> FALSE, column_index |-> column_index, total |-> total_cell_offset]
    ELSE LET total == total_cell_offset + get_character_cell_size(Head(part))
         IN  IF total > cell_width
             THEN [found |-> TRUE, column_index |-> column_index, total |-> total]
             ELSE cwtci_part(Tail(part), cell_width, column_index + 1, total)

RECURSIVE cwtci_parts(_, _, _, _, _)
cwtci_parts(parts, line_len, cell_width, column_index, total_cell_offset) ==
    IF parts = << >> THEN line_len
    ELSE LET r == cwtci_part(Head(parts).part, cell_width, column_index, total_cell_offset)
             total == r.total + Head(parts).width
         IN  IF r.found THEN r.column_index
             ELSE IF total > cell_width THEN r.column_index
             ELSE cwtci_parts(Tail(parts), line_len, cell_width, r.column_index + 1, total)

cell_width_to_column_index(line, cell_width, tab_width) ==
    cwtci_parts(get_tab_widths(line, tab_width), Len(line), cell_width, 0, 0)

\* clamp(value, minimum, maximum)
clamp(value, minimum, maximum) ==
    IF value < minimum THEN minimum
    ELSE IF value > maximum THEN maximum
    ELSE value

\* A different search: the insertion point before any entries equal to x,
\* as bisect_left gives it.
bisect_left(a, x) == Cardinality({ i \in 1..Len(a) : a[i] < x })

\* bisect_right(a, x): binary search for the insertion point after any
\* entries equal to x.
RECURSIVE bisect_loop(_, _, _, _)
bisect_loop(a, x, lo, hi) ==
    IF lo >= hi THEN lo
    ELSE LET mid == (lo + hi) \div 2
         IN  IF x < a[mid + 1] THEN bisect_loop(a, x, lo, mid)
             ELSE bisect_loop(a, x, mid + 1, hi)

bisect_right(a, x) == bisect_loop(a, x, 0, Len(a))

(***************************************************************************)
(* Chunks: the matches of \s*\S+\s* taken one after the other.             *)
(***************************************************************************)
\* The first position >= i that does not hold a whitespace character.
ScanSpace(text, i) ==
    CHOOSE j \in i..Len(text) :
        /\ \A k \in i..(j - 1) : text[k + 1] \in SpaceChars
        /\ (j = Len(text) \/ text[j + 1] \notin SpaceChars)

\* The first position >= i that holds a whitespace character.
ScanWord(text, i) ==
    CHOOSE j \in i..Len(text) :
        /\ \A k \in i..(j - 1) : text[k + 1] \notin SpaceChars
        /\ (j = Len(text) \/ text[j + 1] \in SpaceChars)

RECURSIVE chunks_from(_, _)
chunks_from(text, end) ==
    LET word_start == ScanSpace(text, end)
        word_end == ScanWord(text, word_start)
        new_end == ScanSpace(text, word_end)
    IN  IF word_end = word_start THEN << >>
        ELSE << [start |-> end, end |-> new_end,
                 chunk |-> SubSeq(text, end + 1, new_end)] >>
             \o chunks_from(text, new_end)

chunks(text) == chunks_from(text, 0)

\* rstrip(): the text without its trailing whitespace.
RECURSIVE rstrip(_)
rstrip(text) ==
    IF text = << >> THEN text
    ELSE IF text[Len(text)] \in SpaceChars THEN rstrip(SubSeq(text, 1, Len(text) - 1))
    ELSE text

(***************************************************************************)
(* chop_cells(text, width): the text cut into pieces of at most width      *)
(* cells; a character that does not fit starts a new piece.                *)
(***************************************************************************)
RECURSIVE chop_cells_loop(_, _, _, _)
chop_cells_loop(text, width, total_width, lines) ==
    IF text = << >> THEN lines
    ELSE LET character == Head(text)
             cell_width == get_character_cell_size(character)
         IN  IF total_width + cell_width > width
             THEN chop_cells_loop(Tail(text), width, cell_width,
                                  Append(lines, << character >>))
             ELSE chop_cells_loop(Tail(text), width, total_width + cell_width,
                                  [lines EXCEPT ![Len(lines)] = Append(@, character)])

chop_cells(text, width) == chop_cells_loop(text, width, 0, << << >> >>)

\* The loop over the folded pieces of one chunk: a break before each piece
\* (unless start is 0); start advances by the length of every piece but the
\* last, whose width becomes the running cell offset.
RECURSIVE fold_loop(_, _, _)
fold_loop(folded_word, start, break_positions) ==
    LET line == Head(folded_word)
        appended == IF start # 0 THEN Append(break_positions, start)
                    ELSE break_positions
    IN  IF Len(folded_word) = 1
        THEN [break_positions |-> appended, cell_offset |-> cell_len(line)]
        ELSE fold_loop(Tail(folded_word), start + Len(line), appended)

(***************************************************************************)
(* The line breaker of src/src/textual/_wrap.py.                           *)
(***************************************************************************)
\* The prefix sums of the tab widths: one entry per character of every tab
\* section, holding the total width of the tabs before that section.
RECURSIVE cumulative_widths_loop(_, _, _)
cumulative_widths_loop(tab_widths, cumulative_width, cumulative_widths) ==
    IF tab_widths = << >> THEN cumulative_widths
    ELSE cumulative_widths_loop(
             Tail(tab_widths),
             cumulative_width + Head(tab_widths).width,
             cumulative_widths \o [i \in 1..Len(Head(tab_widths).part) |-> cumulative_width])

build_cumulative_widths(text, tab_size) ==
    cumulative_widths_loop(get_tab_widths(text, tab_size), 0, << >>)

\* A list lookup table[i] for i >= 0 succeeds when i < len(table).
LookupInRange(table, i) == i < Len(table)

\* One pass of the loop over the chunks.  The result is the list of break
\* positions, or the IndexError raised by a lookup of the tab-width table.
RECURSIVE divide_line_loop(_, _, _, _, _, _)
divide_line_loop(cs, width, fold, cumulative_widths, cell_offset, break_positions) ==
    IF cs = << >> THEN Returned(break_positions)
    ELSE LET start == Head(cs).start
             end == Head(cs).end
             chunk == Head(cs).chunk
         IN  IF ~LookupInRange(cumulative_widths, start)
                \/ ~LookupInRange(cumulative_widths, end)
             THEN Raised("IndexError")
             ELSE LET tab_width_before_start == cumulative_widths[start + 1]
                      tab_width_before_end == cumulative_widths[end + 1]
                      chunk_tab_width == tab_width_before_end - tab_width_before_start
                      chunk_width == cell_len(chunk) + chunk_tab_width
                      remaining_space == width - cell_offset
                      chunk_fits == remaining_space >= chunk_width
                  IN  IF chunk_fits
                      THEN divide_line_loop(Tail(cs), width, fold, cumulative_widths,
                                            cell_offset + chunk_width, break_positions)
                      ELSE IF chunk_width > width
                      THEN IF fold
                           THEN LET folded == fold_loop(chop_cells(chunk, width), start,
                                                        break_positions)
                                IN  divide_line_loop(Tail(cs), width, fold, cumulative_widths,
                                                     folded.cell_offset, folded.break_positions)
                           ELSE divide_line_loop(Tail(cs), width, fold, cumulative_widths,
                                                 chunk_width,
                                                 IF start # 0 THEN Append(break_positions, start)
                                                 ELSE break_positions)
                      ELSE IF cell_offset # 0 /\ start # 0
                      THEN divide_line_loop(Tail(cs), width, fold, cumulative_widths,
                                            chunk_width, Append(break_positions, start))
                      ELSE divide_line_loop(Tail(cs), width, fold, cumulative_widths,
                                            cell_offset, break_positions)

divide_line(text, width, tab_size, fold) ==
    divide_line_loop(chunks(text), width, fold, build_cumulative_widths(text, tab_size),
                     0, << >>)

(***************************************************************************)
(* The line breaker the wrapped document imports (rich._wrap.divide_line,  *)
(* called as divide_line(line, width), so fold is true).  A word is        *)
(* measured without its trailing whitespace when deciding whether it fits. *)
(***************************************************************************)
RECURSIVE rich_divide_line_loop(_, _, _, _)
rich_divide_line_loop(ws, width, cell_offset, break_positions) ==
    IF ws = << >> THEN break_positions
    ELSE LET start == Head(ws).start
             word == Head(ws).chunk
             word_length == cell_len(rstrip(word))
             remaining_space == width - cell_offset
         IN  IF remaining_space >= word_length
             THEN rich_divide_line_loop(Tail(ws), width, cell_offset + cell_len(word),
                                        break_positions)
             ELSE IF word_length > width
             THEN LET folded == fold_loop(chop_cells(word, width), start, break_positions)
                  IN  rich_divide_line_loop(Tail(ws), width, folded.cell_offset,
                                            folded.break_positions)
             ELSE IF cell_offset # 0 /\ start # 0
             THEN rich_divide_line_loop(Tail(ws), width, cell_len(word),
                                        Append(break_positions, start))
             ELSE rich_divide_line_loop(Tail(ws), width, cell_offset, break_positions)

rich_divide_line(text, width) == rich_divide_line_loop(chunks(text), width, 0, << >>)

\* Text(line).divide(offsets): the pieces of the line between consecutive
\* entries of [0, *offsets, len(line)].
text_divide(line, offsets) ==
    IF offsets = << >> THEN << line >>
    ELSE LET divide_offsets == << 0 >> \o offsets \o << Len(line) >>
         IN  [i \in 1..(Len(divide_offsets) - 1) |->
                  PySlice(line, divide_offsets[i], divide_offsets[i + 1])]

(***************************************************************************)
(* The wrapped document.                                                   *)
(*   document              the lines of the document being wrapped         *)
(*   width                 _width, the width of the last wrap(width)       *)
(*   wrap_offsets          _wrap_offsets: line index -> break offsets      *)
(*   offset_to_line_info   _offset_to_line_info: row -> (line, section)    *)
(*   line_index_to_offsets _line_index_to_offsets: line index -> rows      *)
(*   ret                   the last query made and what it returned        *)
(*   call                  the locals of a wrap_range that has computed    *)
(*                         the new rows and has not yet stored them all    *)
(***************************************************************************)
VARIABLES document, width, wrap_offsets, offset_to_line_info,
          line_index_to_offsets, ret, call

vars == << document, width, wrap_offsets, offset_to_line_info,
           line_index_to_offsets, ret, call >>

\* The lines documents are built from: an empty line, a line of two words
\* the second of which starts with a wide character, and a line holding a
\* tab.
LinePool ==
    { << >>,
      << "a", " ", "W", "b" >>,
      << "a", "b", TabChar, "c" >> }

LineSeqs(n) == UNION { [1..k -> LinePool] : k \in 1..n }

Widths == 0..MaxWidth

TabWidths == {1, 2, 4}

NoRet == [op |-> "none", arg |-> << >>, val |-> << >>]

\* No wrap_range is between its first and its last assignment.
NoCall ==
    [pc |-> "idle", top_line_index |-> 0, old_bottom_line_index |-> 0,
     new_bottom_line_index |-> 0, top_y_offset |-> 0, old_bottom_y_offset |-> 0,
     new_lines_count |-> 0, new_wrap_offsets |-> << >>,
     new_line_index_to_offsets |-> << >>, new_offset_to_line_info |-> << >>]

\* The three indexes as one value.
Indexes == [wo |-> wrap_offsets, o2l |-> offset_to_line_info,
            l2o |-> line_index_to_offsets]

\* A faulty line breaker: an empty line is broken at offset 0.
wrap_line_breaks_empty(line, w) ==
    IF line = << >> THEN << 0 >> ELSE rich_divide_line(line, w)

\* divide_line(line, width) as the wrapped document calls it.
wrap_line(line, w) == rich_divide_line(line, w)

\* A faulty wrap loop: the line breaker is called whatever the width, also
\* when wrapping is disabled.
RECURSIVE wrap_loop_always_divides(_, _, _, _)
wrap_loop_always_divides(lines, w, line_index, acc) ==
    IF line_index >= Len(lines) THEN acc
    ELSE LET line == lines[line_index + 1]
             offsets == wrap_line(line, w)
             sections == Len(offsets) + 1
         IN  wrap_loop_always_divides(lines, w, line_index + 1,
                 [wo |-> Append(acc.wo, offsets),
                  o2l |-> acc.o2l \o [s \in 1..sections |-> << line_index, s - 1 >>],
                  l2o |-> Append(acc.l2o,
                                 [s \in 1..sections |-> acc.current_offset + s - 1]),
                  current_offset |-> acc.current_offset + sections])

\* wrap(width), the loop over all lines of the document.
RECURSIVE wrap_loop(_, _, _, _)
wrap_loop(lines, w, line_index, acc) ==
    IF line_index >= Len(lines) THEN acc
    ELSE LET line == lines[line_index + 1]
             offsets == IF w # 0 THEN wrap_line(line, w) ELSE << >>
             sections == Len(offsets) + 1
         IN  wrap_loop(lines, w, line_index + 1,
                 [wo |-> Append(acc.wo, offsets),
                  o2l |-> acc.o2l \o [s \in 1..sections |-> << line_index, s - 1 >>],
                  l2o |-> Append(acc.l2o,
                                 [s \in 1..sections |-> acc.current_offset + s - 1]),
                  current_offset |-> acc.current_offset + sections])

wrap(lines, w) ==
    LET built == wrap_loop(lines, w, 0,
                           [wo |-> << >>, o2l |-> << >>, l2o |-> << >>,
                            current_offset |-> 0])
    IN  [wo |-> built.wo, o2l |-> built.o2l, l2o |-> built.l2o]

\* A faulty rewrap loop: every new row is recorded under the top line of the
\* window, the line index is not advanced with the lines.
RECURSIVE rewrap_loop_same_line(_, _, _, _)
rewrap_loop_same_line(new_lines, w, line_index, acc) ==
    IF new_lines = << >> THEN acc
    ELSE LET offsets == IF w # 0 THEN wrap_line(Head(new_lines), w) ELSE << >>
             sections == Len(offsets) + 1
         IN  rewrap_loop_same_line(Tail(new_lines), w, line_index,
                 [wo |-> Append(acc.wo, offsets),
                  o2l |-> acc.o2l \o [s \in 1..sections |-> << line_index, s - 1 >>],
                  l2o |-> Append(acc.l2o,
                                 [s \in 1..sections |-> acc.current_y_offset + s - 1]),
                  current_y_offset |-> acc.current_y_offset + sections])

\* wrap_range, the loop that wraps the lines of the window again.
RECURSIVE rewrap_loop(_, _, _, _)
rewrap_loop(new_lines, w, line_index, acc) ==
    IF new_lines = << >> THEN acc
    ELSE LET offsets == IF w # 0 THEN wrap_line(Head(new_lines), w) ELSE << >>
             sections == Len(offsets) + 1
         IN  rewrap_loop(Tail(new_lines), w, line_index + 1,
                 [wo |-> Append(acc.wo, offsets),
                  o2l |-> acc.o2l \o [s \in 1..sections |-> << line_index, s - 1 >>],
                  l2o |-> Append(acc.l2o,
                                 [s \in 1..sections |-> acc.current_y_offset + s - 1]),
                  current_y_offset |-> acc.current_y_offset + sections])

\* A faulty pass over the rows below the window: the line indexes are moved
\* by twice the line shift.
shift_line_info_double(o2l, first_row, line_shift) ==
    IF line_shift # 0
    THEN [y \in 1..Len(o2l) |->
              IF y - 1 >= first_row
              THEN << o2l[y][1] + 2 * line_shift, o2l[y][2] >>
              ELSE o2l[y]]
    ELSE o2l

\* A faulty pass over the rows below the window: the first row below the
\* window keeps its old line index.
shift_line_info_skip_first(o2l, first_row, line_shift) ==
    IF line_shift # 0
    THEN [y \in 1..Len(o2l) |->
              IF y - 1 > first_row
              THEN << o2l[y][1] + line_shift, o2l[y][2] >>
              ELSE o2l[y]]
    ELSE o2l

\* wrap_range, the pass over the rows below the window: the line index of
\* every row from first_row on is moved by line_shift.
shift_line_info(o2l, first_row, line_shift) ==
    IF line_shift # 0
    THEN [y \in 1..Len(o2l) |->
              IF y - 1 >= first_row
              THEN << o2l[y][1] + line_shift, o2l[y][2] >>
              ELSE o2l[y]]
    ELSE o2l

\* A faulty pass over the lines below the window: the first line below the
\* window keeps its old rows.
shift_line_offsets_skip_first(l2o, first_line, offset_shift) ==
    IF offset_shift # 0
    THEN [i \in 1..Len(l2o) |->
              IF i - 1 > first_line
              THEN [s \in 1..Len(l2o[i]) |-> l2o[i][s] + offset_shift]
              ELSE l2o[i]]
    ELSE l2o

\* wrap_range, the pass over the lines below the window: every row number
\* of every line from first_line on is moved by offset_shift.
shift_line_offsets(l2o, first_line, offset_shift) ==
    IF offset_shift # 0
    THEN [i \in 1..Len(l2o) |->
              IF i - 1 >= first_line
              THEN [s \in 1..Len(l2o[i]) |-> l2o[i][s] + offset_shift]
              ELSE l2o[i]]
    ELSE l2o

\* A faulty last step: the old bottom line is left out of the replaced range.
splice_wrap_offsets_short(wo, top_line_index, old_bottom_line_index, new_wrap_offsets) ==
    PySliceAssign(wo, top_line_index, old_bottom_line_index, new_wrap_offsets)

\* A faulty last step: only the top line of the old window is replaced.
splice_wrap_offsets_top_only(wo, top_line_index, old_bottom_line_index, new_wrap_offsets) ==
    PySliceAssign(wo, top_line_index, top_line_index + 1, new_wrap_offsets)

\* wrap_range, the last step: the wrap offsets of the lines of the old
\* window are replaced by those of the new lines.
splice_wrap_offsets(wo, top_line_index, old_bottom_line_index, new_wrap_offsets) ==
    PySliceAssign(wo, top_line_index, old_bottom_line_index + 1, new_wrap_offsets)

\* A faulty window: new_end is clamped to the line before the last line of
\* the document.
edit_window_new_end_short(idx, doc, start_line, old_end_line, new_end_line) ==
    LET old_max_index == Len(idx.l2o) - 1
        new_max_index == Len(doc) - 1
        start_line_index == clamp(start_line, 0, Min(old_max_index, new_max_index))
        old_end_line_index == clamp(old_end_line, 0, old_max_index)
        new_end_line_index == clamp(new_end_line, 0, Max(new_max_index - 1, 0))
    IN  [top_line_index |-> Min(start_line_index, old_end_line_index),
         old_bottom_line_index |-> Max(start_line_index, old_end_line_index),
         new_bottom_line_index |-> Max(start_line_index, new_end_line_index)]

\* The window of wrap_range: the line indexes clamped, then ordered.
edit_window(idx, doc, start_line, old_end_line, new_end_line) ==
    LET old_max_index == Len(idx.l2o) - 1
        new_max_index == Len(doc) - 1
        start_line_index == clamp(start_line, 0, Min(old_max_index, new_max_index))
        old_end_line_index == clamp(old_end_line, 0, old_max_index)
        new_end_line_index == clamp(new_end_line, 0, new_max_index)
    IN  [top_line_index |-> Min(start_line_index, old_end_line_index),
         old_bottom_line_index |-> Max(start_line_index, old_end_line_index),
         new_bottom_line_index |-> Max(start_line_index, new_end_line_index)]

\* wrap_range(start, old_end, new_end) on the indexes idx, with doc the
\* document after the edit.  Only the line indexes of the three locations
\* are read.
wrap_range(idx, doc, w, start_line, old_end_line, new_end_line) ==
    LET win == edit_window(idx, doc, start_line, old_end_line, new_end_line)
        top_line_index == win.top_line_index
        old_bottom_line_index == win.old_bottom_line_index
        new_bottom_line_index == win.new_bottom_line_index
        top_y_offset == PyAt(PyAt(idx.l2o, top_line_index), 0)
        old_bottom_y_offset == PyAt(PyAt(idx.l2o, old_bottom_line_index), -1)
        new_lines == PySlice(doc, top_line_index, new_bottom_line_index + 1)
        new == rewrap_loop(new_lines, w, top_line_index,
                           [wo |-> << >>, o2l |-> << >>, l2o |-> << >>,
                            current_y_offset |-> top_y_offset])
        spliced_o2l == PySliceAssign(idx.o2l, top_y_offset, old_bottom_y_offset + 1,
                                     new.o2l)
        spliced_l2o == PySliceAssign(idx.l2o, top_line_index,
                                     old_bottom_line_index + 1, new.l2o)
        old_height == old_bottom_y_offset - top_y_offset + 1
        new_height == Len(new.o2l)
        offset_shift == new_height - old_height
        line_shift == new_bottom_line_index - old_bottom_line_index
    IN  [wo |-> splice_wrap_offsets(idx.wo, top_line_index, old_bottom_line_index,
                                    new.wo),
         o2l |-> shift_line_info(spliced_o2l, top_y_offset + new_height, line_shift),
         l2o |-> shift_line_offsets(spliced_l2o, top_line_index + Len(new_lines),
                                    offset_shift)]

\* height
height == SumLen(wrap_offsets) + Len(wrap_offsets)

(***************************************************************************)
(* Queries.                                                                *)
(***************************************************************************)

\* get_sections(line_index)
get_sections(idx, doc, line_index) ==
    text_divide(PyAt(doc, line_index), PyAt(idx.wo, line_index))

\* The lines property: the sections of every line of the document.
lines_view(idx, doc) ==
    [i \in 1..Len(doc) |-> text_divide(doc[i], PyAt(idx.wo, i - 1))]

\* A faulty get_offsets: a negative line index is not refused, and counts
\* from the end of the list.
get_offsets_accepts_negative(idx, line_index) ==
    IF line_index >= Len(idx.wo) \/ ~PyInRange(idx.wo, line_index)
    THEN Raised("ValueError")
    ELSE Returned(PyAt(idx.wo, line_index))

\* get_offsets(line_index)
get_offsets(idx, line_index) ==
    IF line_index < 0 \/ line_index >= Len(idx.wo)
    THEN Raised("ValueError")
    ELSE Returned(PyAt(idx.wo, line_index))

\* get_target_document_column(line_index, x_offset, y_offset, tab_width)
get_target_document_column(idx, doc, line_index, x_offset, y_offset, tab_width) ==
    IF ~PyInRange(idx.wo, line_index) \/ ~PyInRange(doc, line_index)
    THEN Raised("IndexError")
    ELSE LET sections == get_sections(idx, doc, line_index)
         IN  IF ~PyInRange(sections, y_offset) THEN Raised("IndexError")
             ELSE LET target_section == PyAt(sections, y_offset)
                      target_section_start == SumLen(PySlice(sections, 0, y_offset))
                      target_column_index ==
                          target_section_start
                            + cell_width_to_column_index(target_section, x_offset,
                                                         tab_width)
                  IN  IF y_offset # Len(sections) - 1 /\ y_offset # -1
                      THEN Returned(Min(target_column_index,
                                        target_section_start + Len(target_section) - 1))
                      ELSE Returned(target_column_index)

\* A different offset_to_location: on an unwrapped document x is taken as a
\* cell offset and converted to a column, as it is on a wrapped one.
offset_to_location_by_cells(idx, doc, w, x_in, y_in, tab_width) ==
    LET x == Max(0, x_in)
        y == Max(0, y_in)
    IN  IF w = 0
        THEN LET line_index == Min(y, Len(idx.wo) - 1)
             IN  IF ~PyInRange(doc, line_index) THEN Raised("IndexError")
                 ELSE Returned(<< line_index,
                                  cell_width_to_column_index(PyAt(doc, line_index),
                                                             x, tab_width) >>)
        ELSE IF Len(idx.o2l) = 0 THEN Raised("IndexError")
        ELSE LET offset_data == IF PyInRange(idx.o2l, y) THEN PyAt(idx.o2l, y)
                                ELSE PyAt(idx.o2l, -1)
                 line_index == offset_data[1]
                 section_y == offset_data[2]
                 column == get_target_document_column(idx, doc, line_index, x,
                                                      section_y, tab_width)
             IN  IF column.err # "none" THEN column
                 ELSE Returned(<< line_index, column.val >>)

\* A faulty offset_to_location: negative x and y are not raised to 0.
offset_to_location_unclamped(idx, doc, w, x_in, y_in, tab_width) ==
    LET x == x_in
        y == y_in
    IN  IF w = 0
        THEN LET line_index == Min(y, Len(idx.wo) - 1)
             IN  IF ~PyInRange(doc, line_index) THEN Raised("IndexError")
                 ELSE Returned(<< line_index, Min(x, Len(PyAt(doc, line_index))) >>)
        ELSE IF Len(idx.o2l) = 0 THEN Raised("IndexError")
        ELSE LET offset_data == IF PyInRange(idx.o2l, y) THEN PyAt(idx.o2l, y)
                                ELSE PyAt(idx.o2l, -1)
                 line_index == offset_data[1]
                 section_y == offset_data[2]
                 column == get_target_document_column(idx, doc, line_index, x,
                                                      section_y, tab_width)
             IN  IF column.err # "none" THEN column
                 ELSE Returned(<< line_index, column.val >>)

\* offset_to_location(offset, tab_width), offset = (x, y).  The row-to-line
\* map holds pairs, so the branch for an entry that is None is never taken.
offset_to_location(idx, doc, w, x_in, y_in, tab_width) ==
    LET x == Max(0, x_in)
        y == Max(0, y_in)
    IN  IF w = 0
        THEN LET line_index == Min(y, Len(idx.wo) - 1)
             IN  IF ~PyInRange(doc, line_index) THEN Raised("IndexError")
                 ELSE Returned(<< line_index, Min(x, Len(PyAt(doc, line_index))) >>)
        ELSE IF Len(idx.o2l) = 0 THEN Raised("IndexError")
        ELSE LET offset_data == IF PyInRange(idx.o2l, y) THEN PyAt(idx.o2l, y)
                                ELSE PyAt(idx.o2l, -1)
                 line_index == offset_data[1]
                 section_y == offset_data[2]
                 column == get_target_document_column(idx, doc, line_index, x,
                                                      section_y, tab_width)
             IN  IF column.err # "none" THEN column
                 ELSE Returned(<< line_index, column.val >>)

\* A faulty location_to_offset: y is the index of the section within its
\* line, not the row of the section in the document.
location_to_offset_row_in_line(idx, doc, line_in, column_index, tab_width) ==
    LET line_index == clamp(line_in, 0, Len(idx.l2o))
        offsets == get_offsets(idx, line_index)
    IN  IF offsets.err # "none" THEN offsets
        ELSE IF ~PyInRange(idx.l2o, line_index) \/ ~PyInRange(doc, line_index)
        THEN Raised("IndexError")
        ELSE LET wrap_offsets_ == offsets.val
                 section_start_columns == << 0 >> \o wrap_offsets_
                 section_index == bisect_right(wrap_offsets_, column_index)
                 section_column_index ==
                     column_index - PyAt(section_start_columns, section_index)
                 sections == get_sections(idx, doc, line_index)
             IN  IF ~PyInRange(sections, section_index)
                 THEN Raised("IndexError")
                 ELSE Returned(<< cell_len(expand_tabs_inline(
                                      PySlice(PyAt(sections, section_index), 0,
                                              section_column_index), tab_width)),
                                  section_index >>)

\* location_to_offset(location, tab_width), location = (line, column).
location_to_offset(idx, doc, line_in, column_index, tab_width) ==
    LET line_index == clamp(line_in, 0, Len(idx.l2o))
        offsets == get_offsets(idx, line_index)
    IN  IF offsets.err # "none" THEN offsets
        ELSE IF ~PyInRange(idx.l2o, line_index) \/ ~PyInRange(doc, line_index)
        THEN Raised("IndexError")
        ELSE LET wrap_offsets_ == offsets.val
                 section_start_columns == << 0 >> \o wrap_offsets_
                 section_index == bisect_right(wrap_offsets_, column_index)
                 y_offsets == PyAt(idx.l2o, line_index)
                 section_column_index ==
                     column_index - PyAt(section_start_columns, section_index)
                 sections == get_sections(idx, doc, line_index)
             IN  IF ~PyInRange(sections, section_index)
                    \/ ~PyInRange(y_offsets, section_index)
                 THEN Raised("IndexError")
                 ELSE Returned(<< cell_len(expand_tabs_inline(
                                      PySlice(PyAt(sections, section_index), 0,
                                              section_column_index), tab_width)),
                                  PyAt(y_offsets, section_index) >>)

(***************************************************************************)
(* Operations.                                                             *)
(***************************************************************************)
\* No result of a query is waiting to be read.
Idle == ret = NoRet

\* WrappedDocument(document, width): a document of one line, wrapped.
Init ==
    /\ document \in LineSeqs(1)
    /\ width \in Widths
    /\ wrap_offsets = wrap(document, width).wo
    /\ offset_to_line_info = wrap(document, width).o2l
    /\ line_index_to_offsets = wrap(document, width).l2o
    /\ ret = NoRet
    /\ call = NoCall

\* wrap(w)
Wrap(w) ==
    /\ Idle
    /\ width' = w
    /\ wrap_offsets' = wrap(document, w).wo
    /\ offset_to_line_info' = wrap(document, w).o2l
    /\ line_index_to_offsets' = wrap(document, w).l2o
    /\ ret' = NoRet
    /\ UNCHANGED << document, call >>

\* An edit of the document followed by the wrap_range that reports it: the
\* lines first..last are replaced by the lines news, and the edit is reported
\* top to bottom, start on line first, old_end on line last, new_end on the
\* last of the new lines.
EditTopToBottom(max_lines) ==
    /\ Idle
    /\ \E first \in 0..(Len(document) - 1) :
         \E last \in first..(Len(document) - 1) :
           \E news \in LineSeqs(MaxNewLines) :
             LET doc == SubSeq(document, 1, first) \o news
                          \o SubSeq(document, last + 2, Len(document))
                 idx == wrap_range(Indexes, doc, width, first, last,
                                   first + Len(news) - 1)
             IN  /\ Len(doc) <= max_lines
                 /\ document' = doc
                 /\ wrap_offsets' = idx.wo
                 /\ offset_to_line_info' = idx.o2l
                 /\ line_index_to_offsets' = idx.l2o
                 /\ ret' = NoRet
                 /\ UNCHANGED << width, call >>

\* The widest a line of the pool gets with its tabs expanded, and the
\* longest line of the pool.
MaxCells ==
    CHOOSE m \in 0..64 :
        /\ \A l \in LinePool : \A t \in TabWidths :
               cell_len(expand_tabs_inline(l, t)) <= m
        /\ \E l \in LinePool : \E t \in TabWidths :
               cell_len(expand_tabs_inline(l, t)) = m

MaxLineLen ==
    CHOOSE m \in 0..64 :
        (\A l \in LinePool : Len(l) <= m) /\ (\E l \in LinePool : Len(l) = m)

Unchanged == UNCHANGED << document, width, wrap_offsets, offset_to_line_info,
                          line_index_to_offsets, call >>

\* offset_to_location((x, y), tab_width)
OffsetToLocation ==
    /\ Idle
    /\ \E x \in -1..(MaxCells + 1) : \E y \in -1..(height + 1) : \E t \in TabWidths :
         ret' = [op |-> "offset_to_location", arg |-> << x, y, t >>,
                 val |-> offset_to_location(Indexes, document, width, x, y, t)]
    /\ Unchanged

\* location_to_offset((line, column), tab_width)
LocationToOffset ==
    /\ Idle
    /\ \E l \in -1..(Len(document) + 1) : \E c \in -1..(MaxLineLen + 1) :
         \E t \in TabWidths :
           ret' = [op |-> "location_to_offset", arg |-> << l, c, t >>,
                   val |-> location_to_offset(Indexes, document, l, c, t)]
    /\ Unchanged

\* get_offsets(line_index)
GetOffsets ==
    /\ Idle
    /\ \E l \in -1..(Len(document) + 1) :
         ret' = [op |-> "get_offsets", arg |-> << l >>,
                 val |-> get_offsets(Indexes, l)]
    /\ Unchanged

\* get_target_document_column(line_index, x_offset, y_offset, tab_width) for
\* a line of the document and a section of it, given by its index or by a
\* negative index counted from the last section.
GetTargetDocumentColumn ==
    /\ Idle
    /\ \E l \in 0..(Len(document) - 1) :
         \E y \in (-Len(wrap_offsets[l + 1]) - 1)..Len(wrap_offsets[l + 1]) :
           \E x \in -1..(MaxCells + 1) : \E t \in TabWidths :
             ret' = [op |-> "get_target_document_column", arg |-> << l, x, y, t >>,
                     val |-> get_target_document_column(Indexes, document, l, x, y, t)]
    /\ Unchanged

\* The caller has read the result of the query.
Forget ==
    /\ ~Idle
    /\ ret' = NoRet
    /\ Unchanged

Next ==
    \/ \E w \in Widths : Wrap(w)
    \/ EditTopToBottom(MaxLines)

Spec == Init /\ [][Next]_vars

NextQuery ==
    \/ \E w \in Widths : Wrap(w)
    \/ EditTopToBottom(QueryMaxLines)
    \/ OffsetToLocation
    \/ LocationToOffset
    \/ GetOffsets
    \/ GetTargetDocumentColumn
    \/ Forget

SpecQuery == Init /\ [][NextQuery]_vars

(***************************************************************************)
(* Edits whose report is kept, in either direction.                        *)
(***************************************************************************)
\* The indexes are those of a full wrap of the document.
Consistent == Indexes = wrap(document, width)

\* The lines first..last of the document replaced by the lines news.
ReplaceLines(first, last, news) ==
    SubSeq(document, 1, first) \o news \o SubSeq(document, last + 2, Len(document))

\* The document becomes doc and wrap_range(start, old_end, new_end) reports
\* it; the line indexes of the call are kept in ret.
EditAndReport(doc, start_line, old_end_line, new_end_line) ==
    LET idx == wrap_range(Indexes, doc, width, start_line, old_end_line, new_end_line)
    IN  /\ document' = doc
        /\ wrap_offsets' = idx.wo
        /\ offset_to_line_info' = idx.o2l
        /\ line_index_to_offsets' = idx.l2o
        /\ ret' = [op |-> "wrap_range",
                   arg |-> << start_line, old_end_line, new_end_line >>,
                   val |-> Returned(<< >>)]
        /\ UNCHANGED << width, call >>

\* An edit of an up-to-date document reported top to bottom: start on the
\* first line of the replaced span, old_end on its last line, new_end on the
\* last of the new lines.
WrapRangeTopToBottom(max_lines) ==
    /\ Idle
    /\ Consistent
    /\ \E first \in 0..(Len(document) - 1) :
         \E last \in first..(Len(document) - 1) :
           \E news \in LineSeqs(MaxNewLines) :
             /\ Len(ReplaceLines(first, last, news)) <= max_lines
             /\ EditAndReport(ReplaceLines(first, last, news), first, last,
                               first + Len(news) - 1)

\* The same edit of a span of several lines reported bottom to top (a
\* selection made backwards): start on the last line of the replaced span,
\* old_end on its first line, new_end on the last of the new lines.
WrapRangeBottomToTop(max_lines) ==
    /\ Idle
    /\ Consistent
    /\ \E first \in 0..(Len(document) - 1) :
         \E last \in (first + 1)..(Len(document) - 1) :
           \E news \in LineSeqs(MaxNewLines) :
             /\ Len(ReplaceLines(first, last, news)) <= max_lines
             /\ EditAndReport(ReplaceLines(first, last, news), last, first,
                               first + Len(news) - 1)

\* wrap_range(start, end, end) on a document that was not edited, with line
\* indexes from one before the first line to one past the last.
WrapRangeUnchanged ==
    /\ Idle
    /\ Consistent
    /\ \E start_line \in -1..Len(document) :
         \E end_line \in -1..Len(document) :
           EditAndReport(document, start_line, end_line, end_line)

NextRange ==
    \/ \E w \in Widths : Wrap(w)
    \/ WrapRangeTopToBottom(MaxLines)
    \/ WrapRangeBottomToTop(MaxLines)
    \/ WrapRangeUnchanged
    \/ Forget

SpecRange == Init /\ [][NextRange]_vars

(***************************************************************************)
(* Calls that fail part-way.                                               *)
(***************************************************************************)
\* wrap(w) on an up-to-date document, in which the line breaker raises on
\* some line of the document.
\* The width is stored on entry; the breaker is called for every line when w
\* is not 0; the exception leaves the loop, and the three indexes, which are
\* assigned after the loop, keep their values.
WrapFails(w) ==
    /\ Idle
    /\ Consistent
    /\ w # 0
    /\ \E failing_line \in 0..(Len(document) - 1) :
         ret' = [op |-> "wrap", arg |-> << w, failing_line >>,
                 val |-> Raised("Exception")]
    /\ width' = w
    /\ UNCHANGED << document, wrap_offsets, offset_to_line_info,
                    line_index_to_offsets, call >>

\* An edit of an up-to-date document reported top to bottom by a wrap_range
\* in which the line breaker raises on some line of the window.  The loop
\* over the new lines runs before the first splice, the exception leaves it,
\* and nothing of the wrapped document is assigned.
WrapRangeFails(max_lines) ==
    /\ Idle
    /\ Consistent
    /\ width # 0
    /\ \E first \in 0..(Len(document) - 1) :
         \E last \in first..(Len(document) - 1) :
           \E news \in LineSeqs(MaxNewLines) :
             LET doc == ReplaceLines(first, last, news)
                 win == edit_window(Indexes, doc, first, last, first + Len(news) - 1)
             IN  /\ Len(doc) <= max_lines
                 /\ \E failing_line \in
                          win.top_line_index..win.new_bottom_line_index :
                      ret' = [op |-> "wrap_range",
                              arg |-> << first, last, first + Len(news) - 1,
                                         failing_line >>,
                              val |-> Raised("Exception")]
                 /\ document' = doc
    /\ UNCHANGED << width, wrap_offsets, offset_to_line_info,
                    line_index_to_offsets, call >>

NextFail ==
    \/ \E w \in Widths : Wrap(w)
    \/ WrapRangeTopToBottom(QueryMaxLines)
    \/ \E w \in Widths : WrapFails(w)
    \/ WrapRangeFails(QueryMaxLines)
    \/ Forget

SpecFail == Init /\ [][NextFail]_vars

(***************************************************************************)
(* wrap_range one assignment at a time, with queries in between.           *)
(***************************************************************************)
\* height, read by a caller.
Height ==
    /\ Idle
    /\ ret' = [op |-> "height", arg |-> << >>, val |-> Returned(<< height >>)]
    /\ Unchanged

\* An edit of an up-to-date document reported top to bottom, and the part of
\* wrap_range that only reads: the window, its rows, and the loop that wraps
\* the new lines.  What the loop built is kept in call.
BeginWrapRange(max_lines) ==
    /\ Idle
    /\ call = NoCall
    /\ Consistent
    /\ \E first \in 0..(Len(document) - 1) :
         \E last \in first..(Len(document) - 1) :
           \E news \in LineSeqs(MaxNewLines) :
             LET doc == ReplaceLines(first, last, news)
                 win == edit_window(Indexes, doc, first, last, first + Len(news) - 1)
                 top_y_offset ==
                     PyAt(PyAt(line_index_to_offsets, win.top_line_index), 0)
                 old_bottom_y_offset ==
                     PyAt(PyAt(line_index_to_offsets, win.old_bottom_line_index), -1)
                 new_lines == PySlice(doc, win.top_line_index,
                                      win.new_bottom_line_index + 1)
                 new == rewrap_loop(new_lines, width, win.top_line_index,
                                    [wo |-> << >>, o2l |-> << >>, l2o |-> << >>,
                                     current_y_offset |-> top_y_offset])
             IN  /\ Len(doc) <= max_lines
                 /\ document' = doc
                 /\ call' = [pc |-> "splice_rows",
                             top_line_index |-> win.top_line_index,
                             old_bottom_line_index |-> win.old_bottom_line_index,
                             new_bottom_line_index |-> win.new_bottom_line_index,
                             top_y_offset |-> top_y_offset,
                             old_bottom_y_offset |-> old_bottom_y_offset,
                             new_lines_count |-> Len(new_lines),
                             new_wrap_offsets |-> new.wo,
                             new_line_index_to_offsets |-> new.l2o,
                             new_offset_to_line_info |-> new.o2l]
    /\ UNCHANGED << width, wrap_offsets, offset_to_line_info,
                    line_index_to_offsets, ret >>

\* The rows of the old window are replaced by the new rows.
SpliceRows ==
    /\ Idle
    /\ call.pc = "splice_rows"
    /\ offset_to_line_info' =
           PySliceAssign(offset_to_line_info, call.top_y_offset,
                         call.old_bottom_y_offset + 1, call.new_offset_to_line_info)
    /\ call' = [call EXCEPT !.pc = "splice_lines"]
    /\ UNCHANGED << document, width, wrap_offsets, line_index_to_offsets, ret >>

\* The lines of the old window are replaced by the new lines.
SpliceLines ==
    /\ Idle
    /\ call.pc = "splice_lines"
    /\ line_index_to_offsets' =
           PySliceAssign(line_index_to_offsets, call.top_line_index,
                         call.old_bottom_line_index + 1,
                         call.new_line_index_to_offsets)
    /\ call' = [call EXCEPT !.pc = "shift_rows"]
    /\ UNCHANGED << document, width, wrap_offsets, offset_to_line_info, ret >>

\* The pass over the rows below the window.
ShiftRows ==
    /\ Idle
    /\ call.pc = "shift_rows"
    /\ offset_to_line_info' =
           shift_line_info(offset_to_line_info,
                           call.top_y_offset + Len(call.new_offset_to_line_info),
                           call.new_bottom_line_index - call.old_bottom_line_index)
    /\ call' = [call EXCEPT !.pc = "shift_lines"]
    /\ UNCHANGED << document, width, wrap_offsets, line_index_to_offsets, ret >>

\* The pass over the lines below the window.
ShiftLines ==
    /\ Idle
    /\ call.pc = "shift_lines"
    /\ line_index_to_offsets' =
           shift_line_offsets(line_index_to_offsets,
                              call.top_line_index + call.new_lines_count,
                              Len(call.new_offset_to_line_info)
                                - (call.old_bottom_y_offset - call.top_y_offset + 1))
    /\ call' = [call EXCEPT !.pc = "splice_offsets"]
    /\ UNCHANGED << document, width, wrap_offsets, offset_to_line_info, ret >>

\* The last assignment; wrap_range returns.
SpliceOffsets ==
    /\ Idle
    /\ call.pc = "splice_offsets"
    /\ wrap_offsets' =
           splice_wrap_offsets(wrap_offsets, call.top_line_index,
                               call.old_bottom_line_index, call.new_wrap_offsets)
    /\ call' = NoCall
    /\ UNCHANGED << document, width, offset_to_line_info, line_index_to_offsets,
                    ret >>

\* wrap starts only when no wrap_range is running; height and get_offsets
\* are read at any time, also between two assignments of wrap_range.
NextSteps ==
    \/ (call = NoCall /\ \E w \in Widths : Wrap(w))
    \/ BeginWrapRange(QueryMaxLines)
    \/ SpliceRows
    \/ SpliceLines
    \/ ShiftRows
    \/ ShiftLines
    \/ SpliceOffsets
    \/ Height
    \/ GetOffsets
    \/ Forget

SpecSteps == Init /\ [][NextSteps]_vars

(***************************************************************************)
(* The line breaker applied to a text.                                     *)
(***************************************************************************)
TextChars == {"a", " ", "W", TabChar}

Texts == UNION { [1..n -> TextChars] : n \in 0..MaxTextLen }

\* The wrapped document of an empty document; the line breaker does not
\* read it.
InitDivide ==
    /\ document = << << >> >>
    /\ width = 0
    /\ wrap_offsets = wrap(document, width).wo
    /\ offset_to_line_info = wrap(document, width).o2l
    /\ line_index_to_offsets = wrap(document, width).l2o
    /\ ret = NoRet
    /\ call = NoCall

\* divide_line(text, w, tab_size, fold)
DivideLine ==
    /\ Idle
    /\ \E text \in Texts : \E w \in -1..MaxWidth : \E tab_size \in TabWidths :
         \E fold \in BOOLEAN :
           ret' = [op |-> "divide_line", arg |-> << text, w, tab_size, fold >>,
                   val |-> divide_line(text, w, tab_size, fold)]
    /\ Unchanged

NextDivide ==
    \/ DivideLine
    \/ Forget

SpecDivide == InitDivide /\ [][NextDivide]_vars

(***************************************************************************)
(* Properties of the indexes.                                              *)
(***************************************************************************)
\* Row r is listed at position s of line l's rows iff row-to-line[r] = (l, s).
InverseMaps ==
    /\ \A r \in 1..Len(offset_to_line_info) :
         LET l == offset_to_line_info[r][1]
             s == offset_to_line_info[r][2]
         IN  /\ l \in 0..(Len(line_index_to_offsets) - 1)
             /\ s \in 0..(Len(line_index_to_offsets[l + 1]) - 1)
             /\ line_index_to_offsets[l + 1][s + 1] = r - 1
    /\ \A l \in 1..Len(line_index_to_offsets) :
         \A s \in 1..Len(line_index_to_offsets[l]) :
           LET r == line_index_to_offsets[l][s]
           IN  /\ r \in 0..(Len(offset_to_line_info) - 1)
               /\ offset_to_line_info[r + 1] = << l - 1, s - 1 >>

\* C1: after construction, wrap and any sequence of wrap_range calls that
\* report applied edits, the row-to-line map and the line-to-rows map are
\* exact inverses, and the number of rows equals height, the sum over the
\* lines of len(wrap_offsets[line]) + 1.
C1_InverseAndHeight ==
    /\ InverseMaps
    /\ Len(offset_to_line_info) = height

\* A document of three lines, which only edits build, wrapped so that its
\* middle line takes four rows.
C1_Witness ==
    /\ Len(document) = 3
    /\ width = 1
    /\ document[2] = << "a", " ", "W", "b" >>
    /\ document[3] = << >>
    /\ line_index_to_offsets[3] = << Len(wrap_offsets[1]) + 5 >>
    /\ height = Len(wrap_offsets[1]) + 6

\* C2: after wrap_range for an edit reported top to bottom, the three
\* indexes are the ones wrap(width) builds from the document after the edit.
C2_FullWrapEquivalence == Indexes = wrap(document, width)

\* An edited document whose lines take two, one and three rows.
C2_Witness ==
    /\ Len(document) = 3
    /\ width = 2
    /\ document = << << "a", "b", TabChar, "c" >>, << >>, << "a", " ", "W", "b" >> >>
    /\ offset_to_line_info = << << 0, 0 >>, << 0, 1 >>, << 1, 0 >>,
                                << 2, 0 >>, << 2, 1 >>, << 2, 2 >> >>

\* C9: the stored wrap offsets of every line lie in (0, len(line)], and the
\* sections of the line, len(wrap_offsets) + 1 of them, concatenate to the
\* line; the lines view holds the same sections.
C9_SectionsRebuildLine ==
    /\ Len(wrap_offsets) = Len(document)
    /\ \A i \in 1..Len(document) :
         /\ \A k \in 1..Len(wrap_offsets[i]) :
              0 < wrap_offsets[i][k] /\ wrap_offsets[i][k] <= Len(document[i])
         /\ Concat(get_sections(Indexes, document, i - 1)) = document[i]
         /\ Len(get_sections(Indexes, document, i - 1)) = Len(wrap_offsets[i]) + 1
         /\ lines_view(Indexes, document)[i] = get_sections(Indexes, document, i - 1)

\* A folded line below another line in an edited document.
C9_Witness ==
    /\ Len(document) = 2
    /\ width = 1
    /\ document[2] = << "a", "b", TabChar, "c" >>
    /\ wrap_offsets[2] = << 1, 3 >>
    /\ get_sections(Indexes, document, 1) = << << "a" >>, << "b", TabChar >>, << "c" >> >>

\* C10: the row-to-line map is dense and ordered: line indexes do not
\* decrease from row to row and cover every line; the sections of a line are
\* 0, 1, ..., len(wrap_offsets[line]) in consecutive rows; the rows of a line
\* are len(wrap_offsets[line]) + 1 consecutive numbers, and the first row of
\* a line follows the last row of the line before it.
C10_DenseOrdered ==
    /\ Len(line_index_to_offsets) = Len(document)
    /\ Len(wrap_offsets) = Len(document)
    /\ { offset_to_line_info[r][1] : r \in 1..Len(offset_to_line_info) }
         = 0..(Len(document) - 1)
    /\ \A r \in 1..Len(offset_to_line_info) :
         LET l == offset_to_line_info[r][1]
             s == offset_to_line_info[r][2]
             first == r = 1 \/ offset_to_line_info[r - 1][1] # l
             last == r = Len(offset_to_line_info) \/ offset_to_line_info[r + 1][1] # l
         IN  /\ r > 1 => offset_to_line_info[r - 1][1] <= l
             /\ IF first THEN s = 0 ELSE s = offset_to_line_info[r - 1][2] + 1
             /\ last => s = Len(wrap_offsets[l + 1])
    /\ \A i \in 1..Len(line_index_to_offsets) :
         /\ Len(line_index_to_offsets[i]) = Len(wrap_offsets[i]) + 1
         /\ \A s \in 2..Len(line_index_to_offsets[i]) :
              line_index_to_offsets[i][s] = line_index_to_offsets[i][s - 1] + 1
         /\ line_index_to_offsets[i][1] =
              IF i = 1 THEN 0
              ELSE line_index_to_offsets[i - 1][Len(line_index_to_offsets[i - 1])] + 1

\* Three edited lines of four, one and three rows, the first of them broken
\* twice at the same offset.
C10_Witness ==
    /\ Len(document) = 3
    /\ width = 1
    /\ wrap_offsets = << << 2, 2, 3 >>, << >>, << 1, 3 >> >>
    /\ line_index_to_offsets = << << 0, 1, 2, 3 >>, << 4 >>, << 5, 6, 7 >> >>

(***************************************************************************)
(* Properties of the queries.                                              *)
(***************************************************************************)
ValidLocation(l, c) ==
    /\ l \in 0..(Len(document) - 1)
    /\ c \in 0..Len(document[l + 1])

\* C3: for every valid location L and tab width t,
\* offset_to_location(location_to_offset(L, t), t) = L, wrapped or not.
C3_RoundTrip ==
    (ret.op = "location_to_offset" /\ ValidLocation(ret.arg[1], ret.arg[2])) =>
        /\ ret.val.err = "none"
        /\ offset_to_location(Indexes, document, width, ret.val.val[1],
                              ret.val.val[2], ret.arg[3])
             = Returned(<< ret.arg[1], ret.arg[2] >>)

\* The row (line, section) a visual offset y falls on, y brought into the
\* rows of the document.
RowInfo(y) ==
    IF width = 0 THEN << Min(Max(y, 0), Len(document) - 1), 0 >>
    ELSE offset_to_line_info[Min(Max(y, 0), Len(offset_to_line_info) - 1) + 1]

RowText(y) ==
    IF width = 0 THEN document[RowInfo(y)[1] + 1]
    ELSE text_divide(document[RowInfo(y)[1] + 1],
                     wrap_offsets[RowInfo(y)[1] + 1])[RowInfo(y)[2] + 1]

\* The last column the cursor may take on the row: the end of the line on
\* the last row of a line, else the column before the break.
RowLastColumn(y) ==
    LET l == RowInfo(y)[1]
        s == RowInfo(y)[2]
    IN  IF width = 0 \/ s = Len(wrap_offsets[l + 1]) THEN Len(document[l + 1])
        ELSE wrap_offsets[l + 1][s + 1] - 1

C5_LocationToOffsetClamps ==
    ret.op = "location_to_offset" =>
        LET l == clamp(ret.arg[1], 0, Len(document) - 1)
            c == ret.arg[2]
            t == ret.arg[3]
        IN  /\ ret.val.err = "none"
            /\ ret.val = location_to_offset(Indexes, document, l, c, t)
            /\ c > Len(document[l + 1]) =>
                 ret.val = location_to_offset(Indexes, document, l,
                                              Len(document[l + 1]), t)

\* C6: get_offsets(line_index) raises for line_index < 0 and for
\* line_index >= line count, returns the stored offsets of the line
\* otherwise, and changes no index.
C6_GetOffsetsBounds ==
    [][ret'.op = "get_offsets" =>
          /\ UNCHANGED << document, width, wrap_offsets, offset_to_line_info,
                          line_index_to_offsets >>
          /\ IF ret'.arg[1] < 0 \/ ret'.arg[1] >= Len(document)
             THEN ret'.val = Raised("ValueError")
             ELSE ret'.val = Returned(wrap_offsets[ret'.arg[1] + 1])]_vars

\* get_offsets(line_count) on a wrapped document of two lines raises.
C6_Witness ==
    /\ ret.op = "get_offsets"
    /\ Len(document) = 2
    /\ width = 1
    /\ ret.arg[1] = Len(document)
    /\ ret.val = Raised("ValueError")

(***************************************************************************)
(* Properties of the line breaker.                                         *)
(***************************************************************************)
\* C7: for every line and every width >= 1 the list divide_line returns is
\* strictly increasing and every element lies in (0, len(line)].
C7_BreaksStrictlyIncreasing ==
    (ret.op = "divide_line" /\ ret.arg[2] >= 1) =>
        /\ ret.val.err = "none"
        /\ \A i \in 2..Len(ret.val.val) : ret.val.val[i - 1] < ret.val.val[i]
        /\ \A i \in 1..Len(ret.val.val) :
             0 < ret.val.val[i] /\ ret.val.val[i] <= Len(ret.arg[1])

\* C8: with fold = true and width >= 1, every row of the line split at the
\* returned offsets is at most width cells wide, tabs expanded, unless the
\* row is a single character wider than width.
C8_WidthBound ==
    (ret.op = "divide_line" /\ ret.arg[2] >= 1 /\ ret.arg[4] /\ ret.val.err = "none") =>
        \A i \in 1..(Len(ret.val.val) + 1) :
          LET row == text_divide(ret.arg[1], ret.val.val)[i]
          IN  \/ cell_len(expand_tabs_inline(row, ret.arg[3])) <= ret.arg[2]
              \/ Len(row) = 1

OnlyChars(text, cs) == \A i \in 1..Len(text) : text[i] \in cs

\* step, 2 * step, ... below n.
Multiples(step, n) == [k \in 1..((n - 1) \div step) |-> k * step]

CountIn(b, seq) == Cardinality({ i \in 1..Len(seq) : seq[i] = b })

\* C13: a line that is one word of 1-cell characters, folded at width w, is
\* broken at w, 2w, ... and not at 0.
C13_FoldLongWord ==
    ( /\ ret.op = "divide_line"
      /\ ret.arg[4]
      /\ ret.arg[2] >= 1
      /\ Len(ret.arg[1]) >= 1
      /\ OnlyChars(ret.arg[1], {"a"}) ) =>
        ret.val = Returned(Multiples(ret.arg[2], Len(ret.arg[1])))

\* C14: a line of 2-cell characters, folded at width w >= 2, is broken every
\* w \div 2 characters: folding counts cells and splits no character.
C14_FoldWideCharacters ==
    ( /\ ret.op = "divide_line"
      /\ ret.arg[4]
      /\ ret.arg[2] >= 2
      /\ Len(ret.arg[1]) >= 1
      /\ OnlyChars(ret.arg[1], WideChars) ) =>
        ret.val = Returned(Multiples(ret.arg[2] \div 2, Len(ret.arg[1])))

\* The breaks of greedy wrapping: a chunk that fits in what is left of the
\* row is accepted, any other chunk starts a new row.
RECURSIVE GreedyBreaks(_, _, _, _)
GreedyBreaks(cs, w, cell_offset, acc) ==
    IF cs = << >> THEN acc
    ELSE LET chunk_width == cell_len(Head(cs).chunk)
         IN  IF w - cell_offset >= chunk_width
             THEN GreedyBreaks(Tail(cs), w, cell_offset + chunk_width, acc)
             ELSE GreedyBreaks(Tail(cs), w, chunk_width, Append(acc, Head(cs).start))

\* C15: when every chunk of the line fits within the width, a break is
\* emitted at the start of exactly the chunks that do not fit in what is
\* left of the row, so every break is the start of a chunk.
C15_GreedyWordWrap ==
    ( /\ ret.op = "divide_line"
      /\ ret.arg[2] >= 1
      /\ OnlyChars(ret.arg[1], TextChars \ {TabChar})
      /\ chunks(ret.arg[1]) # << >>
      /\ \A i \in 1..Len(chunks(ret.arg[1])) :
            cell_len(chunks(ret.arg[1])[i].chunk) <= ret.arg[2] ) =>
        /\ ret.val = Returned(GreedyBreaks(chunks(ret.arg[1]), ret.arg[2], 0, << >>))
        /\ \A j \in 1..Len(ret.val.val) :
              \E i \in 1..Len(chunks(ret.arg[1])) :
                  chunks(ret.arg[1])[i].start = ret.val.val[j]

\* C16: with fold = false a chunk wider than the width gets one break, at
\* its start unless it starts the line, and none inside; the chunk after it
\* starts a new row.
C16_NoFoldOversizedChunk ==
    ( /\ ret.op = "divide_line"
      /\ ~ret.arg[4]
      /\ ret.arg[2] >= 1
      /\ OnlyChars(ret.arg[1], TextChars \ {TabChar}) ) =>
        LET cs == chunks(ret.arg[1])
        IN  \A i \in 1..Len(cs) :
              cell_len(cs[i].chunk) > ret.arg[2] =>
                /\ ret.val.err = "none"
                /\ CountIn(cs[i].start, ret.val.val)
                     = (IF cs[i].start = 0 THEN 0 ELSE 1)
                /\ \A b \in (cs[i].start + 1)..(cs[i].end - 1) :
                      CountIn(b, ret.val.val) = 0
                /\ i < Len(cs) => CountIn(cs[i + 1].start, ret.val.val) >= 1

\* C17: with width <= 0 divide_line returns, with a break at the start of
\* every chunk after the first and none at 0; an empty line has no break.
C17_NonPositiveWidth ==
    (ret.op = "divide_line" /\ ret.arg[2] <= 0) =>
        LET cs == chunks(ret.arg[1])
        IN  /\ ret.val.err = "none"
            /\ CountIn(0, ret.val.val) = 0
            /\ \A i \in 2..Len(cs) : CountIn(cs[i].start, ret.val.val) >= 1
            /\ ret.arg[1] = << >> => ret.val.val = << >>

(***************************************************************************)
(* Degenerate input.                                                       *)
(***************************************************************************)
\* C18: at any width a line of length 0 has no wrap offset and takes one
\* row holding one empty section; the document of one empty line has height
\* 1 and the row-to-line map [(0, 0)], offset_to_location returns (0, 0) for
\* it and location_to_offset returns (0, 0) for a location on its line.
C18_EmptyLineOneRow ==
    /\ \A i \in 1..Len(document) :
          document[i] = << >> =>
              /\ wrap_offsets[i] = << >>
              /\ Len(line_index_to_offsets[i]) = 1
              /\ offset_to_line_info[line_index_to_offsets[i][1] + 1] = << i - 1, 0 >>
              /\ get_sections(Indexes, document, i - 1) = << << >> >>
    /\ document = << << >> >> =>
          /\ height = 1
          /\ offset_to_line_info = << << 0, 0 >> >>
          /\ line_index_to_offsets = << << 0 >> >>
          /\ ret.op = "offset_to_location" => ret.val = Returned(<< 0, 0 >>)
          /\ (ret.op = "location_to_offset" /\ ret.arg[1] = 0)
                => ret.val = Returned(<< 0, 0 >>)

\* The document of one empty line, wrapped at width 1 and asked for the
\* offset of its only location.
C18_Witness ==
    /\ document = << << >> >>
    /\ width = 1
    /\ ret.op = "location_to_offset"
    /\ ret.arg[1] = 0
    /\ ret.arg[2] = 0
    /\ ret.val = Returned(<< 0, 0 >>)

(***************************************************************************)
(* Properties of wrap_range, call by call.                                 *)
(***************************************************************************)
\* C19: after a wrap_range that reports an edit bottom to top
\* (start.line > old_end.line) the three indexes are those of a full wrap
\* of the edited document, each with one entry per document line.
C19_BottomToTopRestores ==
    (ret.op = "wrap_range" /\ ret.arg[1] > ret.arg[2]) =>
        /\ Indexes = wrap(document, width)
        /\ Len(wrap_offsets) = Len(document)
        /\ Len(line_index_to_offsets) = Len(document)

\* C20: wrap_range leaves the width, the entries of the lines before the
\* window and the rows above the window as they were; after the window the
\* wrap offsets and section indexes are kept, every row number grows by
\* offset_shift (new minus old row count of the window) and every line
\* index by line_shift (new_bottom - old_bottom).
C20_OnlyWindowTouched ==
    [][ret'.op = "wrap_range" =>
          LET win == edit_window(Indexes, document', ret'.arg[1], ret'.arg[2],
                                 ret'.arg[3])
              top == win.top_line_index
              old_bottom == win.old_bottom_line_index
              new_bottom == win.new_bottom_line_index
              top_row == line_index_to_offsets[top + 1][1]
              old_last_row == line_index_to_offsets[old_bottom + 1]
                                  [Len(line_index_to_offsets[old_bottom + 1])]
              old_rows == old_last_row - top_row + 1
              new_rows == SumLen(SubSeq(line_index_to_offsets', top + 1, new_bottom + 1))
              offset_shift == new_rows - old_rows
              line_shift == new_bottom - old_bottom
          IN  /\ width' = width
              /\ \A i \in 1..top :
                    /\ wrap_offsets'[i] = wrap_offsets[i]
                    /\ line_index_to_offsets'[i] = line_index_to_offsets[i]
              /\ \A r \in 1..top_row :
                    offset_to_line_info'[r] = offset_to_line_info[r]
              /\ Len(wrap_offsets') = Len(wrap_offsets) + line_shift
              /\ Len(line_index_to_offsets') = Len(line_index_to_offsets) + line_shift
              /\ Len(offset_to_line_info') = Len(offset_to_line_info) + offset_shift
              /\ \A j \in (old_bottom + 2)..Len(wrap_offsets) :
                    /\ wrap_offsets'[j + line_shift] = wrap_offsets[j]
                    /\ line_index_to_offsets'[j + line_shift]
                         = [s \in 1..Len(line_index_to_offsets[j]) |->
                                line_index_to_offsets[j][s] + offset_shift]
              /\ \A r \in (old_last_row + 2)..Len(offset_to_line_info) :
                    offset_to_line_info'[r + offset_shift]
                      = << offset_to_line_info[r][1] + line_shift,
                           offset_to_line_info[r][2] >>]_vars

\* The first line of a wrapped document replaced by two lines of four rows
\* each: the line below the window is now line 2 and its rows moved down.
C20_Witness ==
    /\ ret.op = "wrap_range"
    /\ ret.arg = << 0, 0, 1 >>
    /\ width = 1
    /\ document = << << "a", " ", "W", "b" >>, << "a", " ", "W", "b" >>,
                     << "a", "b", TabChar, "c" >> >>
    /\ wrap_offsets[3] = << 1, 3 >>
    /\ line_index_to_offsets[3] = << 8, 9, 10 >>
    /\ offset_to_line_info[9] = << 2, 0 >>

\* C21: wrap_range(start, old_end, new_end) with old_end = new_end on a
\* document that was not modified returns and leaves the three indexes as
\* they were, whatever the line indexes, also negative ones and ones past
\* the last line.
C21_NoOpOnUnchangedDocument ==
    [][(ret'.op = "wrap_range" /\ document' = document /\ ret'.arg[2] = ret'.arg[3]) =>
          /\ ret'.val = Returned(<< >>)
          /\ wrap_offsets' = wrap_offsets
          /\ offset_to_line_info' = offset_to_line_info
          /\ line_index_to_offsets' = line_index_to_offsets
          /\ width' = width]_vars

\* wrap_range((-1, _), (3, _), (3, _)) on a wrapped document of three lines
\* whose first line takes four rows.
C21_Witness ==
    /\ ret.op = "wrap_range"
    /\ ret.arg = << -1, 3, 3 >>
    /\ ret.val = Returned(<< >>)
    /\ width = 1
    /\ Len(document) = 3
    /\ document[1] = << "a", " ", "W", "b" >>
    /\ Consistent

(***************************************************************************)
(* Properties of the queries, continued.                                   *)
(***************************************************************************)
\* C22: get_target_document_column(line, x, s, t) returns a column of the
\* section asked for: start(s) <= c <= start(s) + len(section s) - 1 for a
\* section that is not the last (x >= 0), start(s) <= c <= len(line) for the
\* last one; a negative s stands for the section len(sections) + s.
C22_ColumnInsideSection ==
    ret.op = "get_target_document_column" =>
        LET l == ret.arg[1]
            x == ret.arg[2]
            y == ret.arg[3]
            t == ret.arg[4]
            sections == get_sections(Indexes, document, l)
            k == IF y < 0 THEN Len(sections) + y ELSE y
            start == SumLen(SubSeq(sections, 1, k))
        IN  /\ ret.val.err = "none"
            /\ ret.val = get_target_document_column(Indexes, document, l, x, k, t)
            /\ IF k = Len(sections) - 1
               THEN start <= ret.val.val /\ ret.val.val <= Len(document[l + 1])
               ELSE x >= 0 =>
                      /\ start <= ret.val.val
                      /\ ret.val.val <= start + Len(sections[k + 1]) - 1

\* The section of line l that column c belongs to: the k with
\* wrap_offsets[k - 1] <= c < wrap_offsets[k], the bound before the first
\* offset being 0 and the one after the last being infinite.
SectionOfColumn(l, c) ==
    CHOOSE k \in 0..Len(wrap_offsets[l + 1]) :
        /\ (IF k = 0 THEN 0 ELSE wrap_offsets[l + 1][k]) <= c
        /\ k < Len(wrap_offsets[l + 1]) => c < wrap_offsets[l + 1][k + 1]

SectionStart(l, k) == IF k = 0 THEN 0 ELSE wrap_offsets[l + 1][k]

\* C23: location_to_offset((l, c), t) places c in the section k found by
\* right-bisection of the wrap offsets; y is line-to-rows[l][k] and x is the
\* cell width, tabs expanded, of the text of section k before c; a column
\* equal to a wrap offset gives x = 0.
C23_SectionByRightBisection ==
    ( /\ ret.op = "location_to_offset"
      /\ ret.arg[1] \in 0..(Len(document) - 1)
      /\ ret.arg[2] >= 0 ) =>
        LET l == ret.arg[1]
            c == ret.arg[2]
            t == ret.arg[3]
            k == SectionOfColumn(l, c)
            before == SubSeq(document[l + 1], SectionStart(l, k) + 1,
                             Min(c, Len(document[l + 1])))
        IN  /\ ret.val.err = "none"
            /\ ret.val.val[2] = line_index_to_offsets[l + 1][k + 1]
            /\ ret.val.val[1] = cell_len(expand_tabs_inline(before, t))
            /\ (\E i \in 1..Len(wrap_offsets[l + 1]) : wrap_offsets[l + 1][i] = c)
                  => ret.val.val[1] = 0

\* Column 2 of a line broken at 2, 2 and 3: the column is placed on row 2,
\* after the empty section, at x = 0.
C23_Witness ==
    /\ ret.op = "location_to_offset"
    /\ width = 1
    /\ document = << << "a", " ", "W", "b" >> >>
    /\ wrap_offsets = << << 2, 2, 3 >> >>
    /\ ret.arg[1] = 0
    /\ ret.arg[2] = 2
    /\ ret.val = Returned(<< 0, 2 >>)

(***************************************************************************)
(* Totality of the line breaker.                                           *)
(***************************************************************************)
\* C25: for every line, every width and every tab_size >= 1 divide_line
\* returns a list of breaks and does not raise: the lookups of the table of
\* cumulative tab widths at the start and at the end of every chunk are
\* within the table.
C25_DivideLineTotal ==
    (ret.op = "divide_line" /\ ret.arg[3] >= 1) =>
        /\ ret.val.err = "none"
        /\ \A i \in 1..Len(chunks(ret.arg[1])) :
              /\ LookupInRange(build_cumulative_widths(ret.arg[1], ret.arg[3]),
                               chunks(ret.arg[1])[i].start)
              /\ LookupInRange(build_cumulative_widths(ret.arg[1], ret.arg[3]),
                               chunks(ret.arg[1])[i].end)

(***************************************************************************)
(* Order of the rows.                                                      *)
(***************************************************************************)
\* The row location_to_offset gives for the location (l, c).
RowOf(l, c, t) == location_to_offset(Indexes, document, l, c, t).val[2]

\* C27: for valid locations L1 <= L2, by line then column, the rows
\* location_to_offset returns satisfy y(L1) <= y(L2); the columns of one
\* section have the same row; 0 <= y < height.
C27_RowsFollowDocumentOrder ==
    (ret.op = "location_to_offset" /\ ValidLocation(ret.arg[1], ret.arg[2])) =>
        LET l == ret.arg[1]
            c == ret.arg[2]
            t == ret.arg[3]
        IN  /\ ret.val.err = "none"
            /\ 0 <= ret.val.val[2]
            /\ ret.val.val[2] < height
            /\ \A l1 \in 0..l : \A c1 \in 0..Len(document[l1 + 1]) :
                  (l1 < l \/ c1 <= c) => RowOf(l1, c1, t) <= ret.val.val[2]
            /\ \A c1 \in 0..Len(document[l + 1]) :
                  SectionOfColumn(l, c1) = SectionOfColumn(l, c)
                      => RowOf(l, c1, t) = ret.val.val[2]

\* The end of the second line of a wrapped document of two lines of several
\* rows each: the last row of the document.
C27_Witness ==
    /\ ret.op = "location_to_offset"
    /\ width = 1
    /\ Len(document) = 2
    /\ Len(wrap_offsets[1]) > 0
    /\ Len(wrap_offsets[2]) > 0
    /\ ret.arg[1] = 1
    /\ ret.arg[2] = Len(document[2])
    /\ ret.val.err = "none"
    /\ ret.val.val[2] = height - 1

(***************************************************************************)
(* Failure part-way.                                                       *)
(***************************************************************************)
\* C26: a wrap or wrap_range that raises part-way leaves the three indexes
\* and the stored width exactly as they were before the call.
C26_NoPartialFailure ==
    [][(ret'.op \in {"wrap", "wrap_range"} /\ ret'.val.err # "none")
          => UNCHANGED << width, wrap_offsets, offset_to_line_info,
                          line_index_to_offsets >>]_vars

(***************************************************************************)
(* Queries between the assignments of wrap_range.                          *)
(***************************************************************************)
\* The three indexes describe the same rows: the two maps are inverses, the
\* number of rows is height, and every line has one row more than it has
\* wrap offsets.
DataModel ==
    /\ InverseMaps
    /\ Len(offset_to_line_info) = height
    /\ Len(line_index_to_offsets) = Len(wrap_offsets)
    /\ \A l \in 1..Len(wrap_offsets) :
         l <= Len(line_index_to_offsets)
             => Len(line_index_to_offsets[l]) = Len(wrap_offsets[l]) + 1

\* C24: the three indexes disagree only inside wrap_range: whenever no
\* wrap_range is between its first and its last assignment, the state a
\* query observes satisfies the data model, and the height a query read is
\* the number of rows.
C24_MidUpdateOnlyInsideWrapRange ==
    call = NoCall =>
        /\ DataModel
        /\ ret.op = "height" => ret.val.val[1] = Len(offset_to_line_info)

\* A height read between the assignments of wrap_range that is not the
\* number of rows, while the two maps list different numbers of lines from
\* the wrap offsets or from each other.
C24_Witness ==
    /\ call.pc # "idle"
    /\ ret.op = "height"
    /\ ret.val.val[1] # Len(offset_to_line_info)
    /\ ~DataModel

====
